---------------------------- MODULE Spec2Model ----------------------------
(***************************************************************************)
(* A model of 13G.py: the daily 13D/13G ownership report.                  *)
(*                                                                         *)
(*   chunk_text                  the message chunker                       *)
(*   send_telegram_message       the delivery loop                         *)
(*   fetch_13dg_filings_for_cik  the credential check, the request and the *)
(*                               extraction loop                           *)
(*   format_daily_report, main   the report and the per-filer fetch loop   *)
(*                                                                         *)
(* A Python str is a sequence of one-character strings; Python indices are *)
(* 0-based and are kept so (s[i] is s[i + 1] here).  A float is held in    *)
(* tenths (5.5 is 55): every float of the inputs is a multiple of 0.1.     *)
(* A date is held as its proleptic Gregorian ordinal (date.toordinal()).   *)
(***************************************************************************)
EXTENDS Integers, Sequences, FiniteSets, TLC

VARIABLES
    \* chunk_text
    text,              \* the argument (also send_telegram_message's)
    max_len,           \* the argument
    remaining,         \* the local
    chunks,            \* the local (also send_telegram_message's)
    ck_pc,             \* "idle", "loop" (at the while), "done" (returned)
    \* the extraction loop of fetch_13dg_filings_for_cik
    filings,           \* data.get("filings", [])
    cutoff_date,       \* the local
    max_filings,       \* the argument
    results,           \* the local
    fi,                \* the position of the for loop in filings (1-based)
    ex_pc,             \* "idle", "loop", "done" (returned), "raised"
    \* send_telegram_message
    token_set,         \* TELEGRAM_BOT_TOKEN and TELEGRAM_CHAT_ID are both set
    all_ok,            \* the local
    part,              \* idx of the for loop
    posted,            \* the payload texts requests.post was called with
    outcomes,          \* how each of those calls ended
    send_result,       \* the value returned
    sd_pc,             \* "idle", "call", "loop", "done" (returned)
    \* main
    SEC_API_KEY,       \* the global
    now,               \* datetime.now(timezone.utc)
    fund_i,            \* the position of the for loop in FUNDS (1-based)
    main_filings,      \* the local filings
    all_funds_filings, \* the local, a dict in insertion order
    report_text,       \* the local
    fetch_log,         \* the ciks fetch_13dg_filings_for_cik was called with
    sec_posts,         \* the ciks requests.post was called for
    errors,            \* the errors the except clause of main printed
    pc                 \* "idle", "loop", "fetch", "send", "end"

chunkVars == <<text, max_len, remaining, chunks, ck_pc>>
extractVars == <<filings, cutoff_date, max_filings, results, fi, ex_pc>>
sendVars == <<token_set, all_ok, part, posted, outcomes, send_result, sd_pc>>
mainVars == <<SEC_API_KEY, now, fund_i, main_filings, all_funds_filings,
              report_text, fetch_log, sec_posts, errors, pc>>
vars == <<chunkVars, extractVars, sendVars, mainVars>>

-----------------------------------------------------------------------------
(* Bounds of the model.                                                    *)

\* The longest input text of the chunker's exhaustive inputs.
MaxTextLen == 5
\* The largest max_len of the chunker's exhaustive inputs.
MaxLenBound == 3
\* The longest list of raw records given to the extraction loop.
MaxRecords == 3
\* The largest max_filings given to the extraction loop.
MaxCount == 2
\* How many of the configured filers, from the first on, main runs over.
NumFunds == 3

-----------------------------------------------------------------------------
(* Program constants.                                                      *)

LOOKBACK_DAYS == 365
MAX_FILINGS_PER_FUND == 5
MAX_TELEGRAM_LENGTH == 4000
\* "=" * 70, "-" * 70
RULE_WIDTH == 70
\* len(issuer) > 35, {issuer:<35}
ISSUER_WIDTH == 35
\* issuer[:32]
ISSUER_KEEP == 32

NL == "\n"

-----------------------------------------------------------------------------
(* Python built-ins.                                                       *)

SetMax(S) == CHOOSE x \in S : \A y \in S : y <= x
SetMin(S) == CHOOSE x \in S : \A y \in S : x <= y
Min2(a, b) == IF a <= b THEN a ELSE b

\* s[:k], 0 <= k
SliceTo(s, k) == SubSeq(s, 1, Min2(k, Len(s)))
\* s[k:], 0 <= k
SliceFrom(s, k) == SubSeq(s, k + 1, Len(s))

\* A plausible slip: find instead of rfind (the lowest index).
FindFirst(s, ch, start, end) ==
    LET hits == {i \in start..(Min2(end, Len(s)) - 1) : s[i + 1] = ch}
    IN  IF hits = {} THEN -1 ELSE SetMin(hits)

\* s.rfind(ch, start, end): the highest index i in [start, end) with s[i] = ch,
\* -1 when there is none.
Rfind(s, ch, start, end) ==
    LET hits == {i \in start..(Min2(end, Len(s)) - 1) : s[i + 1] = ch}
    IN  IF hits = {} THEN -1 ELSE SetMax(hits)

\* s.lstrip(ch)
Lstrip(s, ch) ==
    LET keep == {i \in 1..Len(s) : s[i] # ch}
    IN  IF keep = {} THEN <<>> ELSE SubSeq(s, SetMin(keep), Len(s))

\* s.strip(): the spaces at both ends removed
Strip(s) ==
    LET keep == {i \in 1..Len(s) : s[i] # " "}
    IN  IF keep = {} THEN <<>> ELSE SubSeq(s, SetMin(keep), SetMax(keep))

\* s.split(sep, 1)[0]: s up to its first sep, all of s when it has none
SplitHead(s, sep) ==
    LET hits == {i \in 1..Len(s) : s[i] = sep}
    IN  IF hits = {} THEN s ELSE SubSeq(s, 1, SetMin(hits) - 1)

\* ch * n
Repeat(ch, n) == [i \in 1..n |-> ch]

DigitChars == <<"0", "1", "2", "3", "4", "5", "6", "7", "8", "9">>

IsDigit(c) == \E d \in 1..10 : DigitChars[d] = c

DigitValue(c) == (CHOOSE d \in 1..10 : DigitChars[d] = c) - 1

RECURSIVE DigitsValue(_)
\* int(s) of a string of digits
DigitsValue(s) ==
    IF s = <<>> THEN 0
    ELSE 10 * DigitsValue(SubSeq(s, 1, Len(s) - 1)) + DigitValue(s[Len(s)])

RECURSIVE IntStr(_)
\* str(n), n >= 0
IntStr(n) ==
    IF n < 10 THEN <<DigitChars[n + 1]>>
    ELSE Append(IntStr(n \div 10), DigitChars[(n % 10) + 1])

\* f"{n:0{w}d}", n >= 0
ZeroPad(n, w) ==
    LET s == IntStr(n)
    IN  IF Len(s) >= w THEN s ELSE Repeat("0", w - Len(s)) \o s

IsLeap(y) == (y % 4 = 0) /\ ((y % 100 # 0) \/ (y % 400 = 0))

DaysInMonth(y, m) ==
    IF m = 2 THEN (IF IsLeap(y) THEN 29 ELSE 28)
    ELSE IF m \in {4, 6, 9, 11} THEN 30 ELSE 31

RECURSIVE DaysBeforeMonth(_, _)
DaysBeforeMonth(y, m) ==
    IF m = 1 THEN 0 ELSE DaysBeforeMonth(y, m - 1) + DaysInMonth(y, m - 1)

\* date(y, m, d).toordinal()
ToOrdinal(y, m, d) ==
    LET p == y - 1
    IN  365 * p + (p \div 4) - (p \div 100) + (p \div 400)
        + DaysBeforeMonth(y, m) + d

\* The value of a date that could not be parsed.
NoDate == -1

\* datetime.strptime(s, "%Y-%m-%d").date(): the date's ordinal, NoDate when
\* strptime raises ValueError.  The format's pattern is four digits, "-", a
\* month of one or two digits in 1..12, "-", a day of one or two digits in
\* 1..31, with nothing left over; date() then refuses year 0 and a day the
\* month does not have.
StrptimeYmd(s) ==
    LET dashes == {i \in 1..Len(s) : s[i] = "-"}
    IN  IF Cardinality(dashes) # 2 THEN NoDate
        ELSE LET p1 == SetMin(dashes)
                 p2 == SetMax(dashes)
                 ys == SubSeq(s, 1, p1 - 1)
                 ms == SubSeq(s, p1 + 1, p2 - 1)
                 ds == SubSeq(s, p2 + 1, Len(s))
                 digits == \A i \in 1..Len(s) : i \in dashes \/ IsDigit(s[i])
             IN  IF ~(/\ digits
                      /\ Len(ys) = 4
                      /\ Len(ms) \in {1, 2}
                      /\ Len(ds) \in {1, 2})
                 THEN NoDate
                 ELSE LET y == DigitsValue(ys)
                          m == DigitsValue(ms)
                          d == DigitsValue(ds)
                      IN  IF /\ y >= 1
                             /\ m \in 1..12
                             /\ d >= 1
                             /\ d <= DaysInMonth(y, m)
                          THEN ToOrdinal(y, m, d)
                          ELSE NoDate

-----------------------------------------------------------------------------
(* chunk_text                                                              *)

\* A plausible slip: no hard-split fallback when no newline is found.
SplitAtNoFallback(rem, maxlen) ==
    LET at == Rfind(rem, NL, 0, maxlen)
    IN  IF at = -1 THEN Len(rem) ELSE at

\* A plausible slip: the first newline below max_len instead of the last.
SplitAtFirstNewline(rem, maxlen) ==
    LET at == FindFirst(rem, NL, 0, maxlen)
    IN  IF at = -1 THEN maxlen ELSE at

\* split_at of one iteration
SplitAt(rem, maxlen) ==
    LET at == Rfind(rem, NL, 0, maxlen)
    IN  IF at = -1 THEN maxlen ELSE at

\* A plausible slip: the character at the split point is always dropped.
RestAfterSkipOne(rem, at) == Lstrip(SliceFrom(rem, at + 1), NL)

\* A plausible slip: the leading newlines are kept.
RestAfterNoStrip(rem, at) == SliceFrom(rem, at)

\* remaining[split_at:].lstrip("\n")
RestAfter(rem, at) == Lstrip(SliceFrom(rem, at), NL)

\* while remaining: false
ChunkExit ==
    /\ ck_pc = "loop"
    /\ remaining = <<>>
    /\ ck_pc' = "done"
    /\ UNCHANGED <<text, max_len, remaining, chunks>>
    /\ UNCHANGED <<extractVars, sendVars, mainVars>>

\* if len(remaining) <= max_len: append; break
ChunkFinal ==
    /\ ck_pc = "loop"
    /\ remaining # <<>>
    /\ Len(remaining) <= max_len
    /\ chunks' = Append(chunks, remaining)
    /\ ck_pc' = "done"
    /\ UNCHANGED <<text, max_len, remaining>>
    /\ UNCHANGED <<extractVars, sendVars, mainVars>>

\* the rest of the loop body
ChunkSplit ==
    /\ ck_pc = "loop"
    /\ remaining # <<>>
    /\ Len(remaining) > max_len
    /\ LET split_at == SplitAt(remaining, max_len)
       IN  /\ chunks' = Append(chunks, SliceTo(remaining, split_at))
           /\ remaining' = RestAfter(remaining, split_at)
    /\ UNCHANGED <<text, max_len, ck_pc>>
    /\ UNCHANGED <<extractVars, sendVars, mainVars>>

RECURSIVE ChunkLoop(_, _, _)
\* The whole loop: chunk_text(text, max_len) is ChunkLoop(text, max_len, <<>>).
ChunkLoop(rem, maxlen, acc) ==
    IF rem = <<>> THEN acc
    ELSE IF Len(rem) <= maxlen THEN Append(acc, rem)
    ELSE LET split_at == SplitAt(rem, maxlen)
         IN  ChunkLoop(RestAfter(rem, split_at), maxlen,
                       Append(acc, SliceTo(rem, split_at)))

chunk_text(t, maxlen) == ChunkLoop(t, maxlen, <<>>)

-----------------------------------------------------------------------------
(* JSON values of the data source's response.  A value is a record of its  *)
(* type and payload: n for a number (a float in tenths) or a bool (0, 1),  *)
(* s for a string.  "absent" marks a key the object does not have.         *)

JAbsent == [ty |-> "absent", n |-> 0, s |-> <<>>]
JNull == [ty |-> "null", n |-> 0, s |-> <<>>]
JBool(b) == [ty |-> "bool", n |-> IF b THEN 1 ELSE 0, s |-> <<>>]
JInt(k) == [ty |-> "int", n |-> k, s |-> <<>>]
JFloat(tenths) == [ty |-> "float", n |-> tenths, s |-> <<>>]
JStr(str) == [ty |-> "str", n |-> 0, s |-> str]

\* Python's None
None == JNull

\* d.get(key): None for a key the dict does not have
DictGet(v) == IF v.ty = "absent" THEN None ELSE v

\* bool(v)
Truthy(v) ==
    CASE v.ty \in {"absent", "null"} -> FALSE
      [] v.ty \in {"bool", "int", "float"} -> v.n # 0
      [] v.ty = "str" -> v.s # <<>>

\* isinstance(p, (int, float)); bool is a subclass of int
IsNumber(p) == p.ty \in {"int", "float", "bool"}

\* float(p) of an int, a bool or a float, in tenths
ToFloat(p) == IF p.ty = "float" THEN p.n ELSE 10 * p.n

\* percent_owned: None, or a float in tenths
NoPercent == [some |-> FALSE, tenths |-> 0]
SomePercent(t) == [some |-> TRUE, tenths |-> t]

-----------------------------------------------------------------------------
(* fetch_13dg_filings_for_cik: the extraction loop                         *)

\* cutoff_date = now_utc.date() - timedelta(days=lookback_days)
CutoffDate(today, lookback_days) == today - lookback_days

\* owners = f.get("owners", []) or []
OwnersOf(f) == IF f.owners.ty = "list" THEN f.owners.items ELSE <<>>

RECURSIVE CollectPercents(_, _)
\* for o in owners: p = o.get("amountAsPercent"); the floats appended
CollectPercents(owners, acc) ==
    IF owners = <<>> THEN acc
    ELSE LET p == DictGet(Head(owners).amountAsPercent)
         IN  CollectPercents(Tail(owners),
                             IF IsNumber(p) THEN Append(acc, ToFloat(p)) ELSE acc)

RECURSIVE SeqMin(_)
\* A plausible slip: min(percents).
SeqMin(xs) ==
    IF Len(xs) = 1 THEN xs[1]
    ELSE LET m == SeqMin(Tail(xs)) IN IF xs[1] <= m THEN xs[1] ELSE m

RECURSIVE SeqMax(_)
\* max(percents) of a non-empty list
SeqMax(xs) ==
    IF Len(xs) = 1 THEN xs[1]
    ELSE LET m == SeqMax(Tail(xs)) IN IF xs[1] >= m THEN xs[1] ELSE m

\* percent_owned = max(percents) if percents else None
PercentOwned(percents) ==
    IF percents = <<>> THEN NoPercent ELSE SomePercent(SeqMax(percents))

NoItem == [form |-> <<>>, filed_at_date |-> <<>>, issuer |-> <<>>,
           percent_owned |-> NoPercent]

\* if filed_date < cutoff_date
TooOld(filed_date, cutoff) == filed_date < cutoff

\* One pass of the loop body on record f, after the max_filings test:
\* "skip" (a continue), "raise" (an exception leaves the function), or
\* "append" with the item appended.
ProcessRecord(f, cutoff) ==
    LET filed_at_raw == DictGet(f.filedAt)
        skip == [kind |-> "skip", item |-> NoItem]
        raise == [kind |-> "raise", item |-> NoItem]
    IN  IF ~Truthy(filed_at_raw) THEN skip
        \* filed_at_raw.split: AttributeError, only a str has split
        ELSE IF filed_at_raw.ty # "str" THEN raise
        ELSE LET filed_date_str == SplitHead(filed_at_raw.s, "T")
                 filed_date == StrptimeYmd(filed_date_str)
                 owners == OwnersOf(f)
             IN  IF filed_date = NoDate THEN skip
                 ELSE IF TooOld(filed_date, cutoff) THEN skip
                 \* o.get: AttributeError, only a dict has get
                 ELSE IF \E i \in 1..Len(owners) : ~owners[i].isdict THEN raise
                 ELSE [kind |-> "append",
                       item |-> [form |-> f.formType,
                                 filed_at_date |-> filed_date_str,
                                 issuer |-> f.nameOfIssuer,
                                 percent_owned |->
                                     PercentOwned(CollectPercents(owners, <<>>))]]

\* if len(results) >= max_filings: break
ExtractBreak ==
    /\ ex_pc = "loop"
    /\ fi <= Len(filings)
    /\ Len(results) >= max_filings
    /\ ex_pc' = "done"
    /\ UNCHANGED <<filings, cutoff_date, max_filings, results, fi>>
    /\ UNCHANGED <<chunkVars, sendVars, mainVars>>

\* a continue
ExtractSkip ==
    /\ ex_pc = "loop"
    /\ fi <= Len(filings)
    /\ Len(results) < max_filings
    /\ ProcessRecord(filings[fi], cutoff_date).kind = "skip"
    /\ fi' = fi + 1
    /\ UNCHANGED <<filings, cutoff_date, max_filings, results, ex_pc>>
    /\ UNCHANGED <<chunkVars, sendVars, mainVars>>

\* an exception no handler of the function catches
ExtractRaise ==
    /\ ex_pc = "loop"
    /\ fi <= Len(filings)
    /\ Len(results) < max_filings
    /\ ProcessRecord(filings[fi], cutoff_date).kind = "raise"
    /\ ex_pc' = "raised"
    /\ UNCHANGED <<filings, cutoff_date, max_filings, results, fi>>
    /\ UNCHANGED <<chunkVars, sendVars, mainVars>>

\* results.append(...)
ExtractAppend ==
    /\ ex_pc = "loop"
    /\ fi <= Len(filings)
    /\ Len(results) < max_filings
    /\ LET r == ProcessRecord(filings[fi], cutoff_date)
       IN  /\ r.kind = "append"
           /\ results' = Append(results, r.item)
    /\ fi' = fi + 1
    /\ UNCHANGED <<filings, cutoff_date, max_filings, ex_pc>>
    /\ UNCHANGED <<chunkVars, sendVars, mainVars>>

\* the for loop is exhausted: return results
ExtractReturn ==
    /\ ex_pc = "loop"
    /\ fi > Len(filings)
    /\ ex_pc' = "done"
    /\ UNCHANGED <<filings, cutoff_date, max_filings, results, fi>>
    /\ UNCHANGED <<chunkVars, sendVars, mainVars>>

RECURSIVE ExtractLoop(_, _, _, _)
\* The whole loop on the records fs: what it returns, or that it raised.
ExtractLoop(fs, cutoff, maxf, acc) ==
    IF fs = <<>> \/ Len(acc) >= maxf THEN [raised |-> FALSE, results |-> acc]
    ELSE LET r == ProcessRecord(Head(fs), cutoff)
         IN  CASE r.kind = "raise" -> [raised |-> TRUE, results |-> <<>>]
               [] r.kind = "skip" -> ExtractLoop(Tail(fs), cutoff, maxf, acc)
               [] r.kind = "append" ->
                      ExtractLoop(Tail(fs), cutoff, maxf, Append(acc, r.item))

-----------------------------------------------------------------------------
(* format_daily_report                                                     *)

RECURSIVE Join(_, _)
\* sep.join(lines)
Join(lines, sep) ==
    IF lines = <<>> THEN <<>>
    ELSE IF Len(lines) = 1 THEN lines[1]
    ELSE lines[1] \o <<sep>> \o Join(Tail(lines), sep)

\* now_utc.strftime('%Y-%m-%d %H:%M:%S')
Strftime(t) ==
    ZeroPad(t.year, 4) \o <<"-">> \o ZeroPad(t.month, 2) \o <<"-">>
    \o ZeroPad(t.day, 2) \o <<" ">> \o ZeroPad(t.hour, 2) \o <<":">>
    \o ZeroPad(t.minute, 2) \o <<":">> \o ZeroPad(t.second, 2)

\* f"{s:<{w}}"
LJust(s, w) == IF Len(s) >= w THEN s ELSE s \o Repeat(" ", w - Len(s))

\* f"{x:.1f}%" of a float held in tenths, x >= 0
PercentStr(tenths) ==
    IntStr(tenths \div 10) \o <<".">> \o IntStr(tenths % 10) \o <<"%">>

TitleLine == <<"D", "a", "i", "l", "y", " ", "1", "3", "D", "/", "1", "3", "G", " ", "O", "w", "n", "e", "r", "s", "h", "i", "p", " ", "S", "n", "a", "p", "s", "h", "o", "t">>
ColumnsLine == <<"D", "a", "t", "e", " ", " ", " ", " ", " ", " ", " ", "|", " ", "I", "s", "s", "u", "e", "r", " ", " ", " ", " ", " ", " ", " ", " ", " ", " ", " ", " ", " ", " ", " ", " ", " ", " ", " ", " ", " ", " ", " ", " ", " ", " ", " ", " ", " ", " ", " ", "|", " ", "%", " ", "o", "w", "n", "e", "d">>
NoFilingsLine == <<"N", "o", " ", "1", "3", "D", "/", "1", "3", "G", " ", "f", "i", "l", "i", "n", "g", "s", " ", "i", "n", " ", "t", "h", "e", " ", "l", "o", "o", "k", "b", "a", "c", "k", " ", "w", "i", "n", "d", "o", "w", ".">>
RuleLine == Repeat("=", RULE_WIDTH)
DashLine == Repeat("-", RULE_WIDTH)

\* f"{fund_name} (CIK {cik})"
FundLine(name, cik) == name \o <<" ", "(", "C", "I", "K", " ">> \o cik \o <<")">>

\* One line of the table.
FilingLine(f) ==
    LET stripped == Strip(f.issuer)
        issuer == IF Len(stripped) > ISSUER_WIDTH
                  THEN SliceTo(stripped, ISSUER_KEEP) \o <<".", ".", ".">>
                  ELSE stripped
        pct_str == IF ~f.percent_owned.some THEN <<"N", "/", "A">>
                   ELSE PercentStr(f.percent_owned.tenths)
    IN  f.filed_at_date \o <<" ", "|", " ">> \o LJust(issuer, ISSUER_WIDTH) \o <<" ", "|", " ">>
        \o pct_str

\* The lines of one fund.
FundLines(cik, info) ==
    <<RuleLine, FundLine(info.name, cik), DashLine, ColumnsLine, DashLine>>
    \o (IF info.filings = <<>>
        THEN <<NoFilingsLine, <<>>>>
        ELSE [k \in 1..Len(info.filings) |-> FilingLine(info.filings[k])]
             \o << <<>> >>)

RECURSIVE AllFundLines(_)
\* for cik, info in all_funds_filings.items()
AllFundLines(items) ==
    IF items = <<>> THEN <<>>
    ELSE FundLines(items[1].cik, items[1].info) \o AllFundLines(Tail(items))

\* The lines before the first fund.
HeadLines(t) ==
    <<TitleLine,
      <<"D", "a", "t", "e", " ", "(", "U", "T", "C", ")", ":", " ">> \o Strftime(t),
      <<"S", "h", "o", "w", "i", "n", "g", " ", "u", "p", " ", "t", "o", " ">> \o IntStr(MAX_FILINGS_PER_FUND)
          \o <<" ", "l", "a", "t", "e", "s", "t", " ", "f", "i", "l", "i", "n", "g", "s", " ", "p", "e", "r", " ", "f", "u", "n", "d">>,
      <<>>>>

format_daily_report(items, t) == Join(HeadLines(t) \o AllFundLines(items), NL)

-----------------------------------------------------------------------------
(* send_telegram_message                                                   *)

\* How one requests.post to the delivery endpoint may end: status 200 and
\* ok true; another status; status 200 and ok false or missing; an
\* exception (a timeout, a connection error, a body that is no JSON).
DeliveryOutcomes == {"ok", "http_error", "not_ok", "exception"}

\* body of part idx
PartBody(cs, idx) ==
    IF Len(cs) > 1
    THEN <<"(", "P", "a", "r", "t", " ">> \o IntStr(idx) \o <<"/">> \o IntStr(Len(cs)) \o <<")", "\n">>
         \o cs[idx]
    ELSE cs[idx]

\* A plausible slip: a later success overwrites an earlier failure.
AllOkAfterLastOnly(ok, outcome) == outcome = "ok"

\* all_ok after one delivery
AllOkAfter(ok, outcome) == ok /\ outcome = "ok"

\* if not TELEGRAM_BOT_TOKEN or not TELEGRAM_CHAT_ID: return False
SendNoToken ==
    /\ sd_pc = "call"
    /\ ~token_set
    /\ send_result' = FALSE
    /\ sd_pc' = "done"
    /\ UNCHANGED <<token_set, all_ok, part, posted, outcomes>>
    /\ UNCHANGED <<chunkVars, extractVars, mainVars>>

\* chunks = chunk_text(text); all_ok = True
SendStart ==
    /\ sd_pc = "call"
    /\ token_set
    /\ chunks' = chunk_text(text, MAX_TELEGRAM_LENGTH)
    /\ all_ok' = TRUE
    /\ part' = 1
    /\ sd_pc' = "loop"
    /\ UNCHANGED <<token_set, posted, outcomes, send_result>>
    /\ UNCHANGED <<text, max_len, remaining, ck_pc>>
    /\ UNCHANGED <<extractVars, mainVars>>

\* one pass of the for loop: the post and what follows it
SendChunk ==
    /\ sd_pc = "loop"
    /\ part <= Len(chunks)
    /\ \E outcome \in DeliveryOutcomes :
          /\ posted' = Append(posted, PartBody(chunks, part))
          /\ outcomes' = Append(outcomes, outcome)
          /\ all_ok' = AllOkAfter(all_ok, outcome)
    /\ part' = part + 1
    /\ UNCHANGED <<token_set, send_result, sd_pc>>
    /\ UNCHANGED <<chunkVars, extractVars, mainVars>>

\* return all_ok
SendReturn ==
    /\ sd_pc = "loop"
    /\ part > Len(chunks)
    /\ send_result' = all_ok
    /\ sd_pc' = "done"
    /\ UNCHANGED <<token_set, all_ok, part, posted, outcomes>>
    /\ UNCHANGED <<chunkVars, extractVars, mainVars>>

-----------------------------------------------------------------------------
(* Inputs: raw records as the data source may return them.                 *)

Owner(p) == [isdict |-> TRUE, amountAsPercent |-> p]
\* An owner entry that is no JSON object (a string, say).
NotAnOwner == [isdict |-> FALSE, amountAsPercent |-> JAbsent]

OwnerList(items) == [ty |-> "list", items |-> items]
OwnersNull == [ty |-> "null", items |-> <<>>]
OwnersAbsent == [ty |-> "absent", items |-> <<>>]

Raw(form, filedAt, issuer, owners) ==
    [formType |-> form, filedAt |-> filedAt, nameOfIssuer |-> issuer,
     owners |-> owners]

SampleFilings == <<
    \* in the window; owners 5.5, 12 and "7.1"
    Raw(<<"S", "C", " ", "1", "3", "G">>, JStr(<<"2", "0", "2", "5", "-", "1", "1", "-", "2", "4", "T", "1", "7", ":", "1", "2", ":", "3", "4", "-", "0", "4", ":", "0", "0">>), <<"A", "C", "M", "E", " ", "C", "o", "r", "p">>,
        OwnerList(<<Owner(JFloat(55)), Owner(JInt(12)), Owner(JStr(<<"7", ".", "1">>))>>)),
    \* in the window of the first clock only; no padding, no time of day;
    \* owners null, true and one without the key
    Raw(<<"S", "C", " ", "1", "3", "D">>, JStr(<<"2", "0", "2", "5", "-", "3", "-", "9">>), <<"B", "e", "t", "a", " ", "I", "n", "c">>,
        OwnerList(<<Owner(JNull), Owner(JBool(TRUE)), Owner(JAbsent)>>)),
    \* older than the window
    Raw(<<"S", "C", " ", "1", "3", "G", "/", "A">>, JStr(<<"2", "0", "2", "4", "-", "0", "3", "-", "0", "1", "T", "0", "9", ":", "0", "0", ":", "0", "0", "-", "0", "5", ":", "0", "0">>), <<"O", "l", "d", " ", "C", "o">>,
        OwnerList(<<Owner(JFloat(99))>>)),
    \* no filedAt
    Raw(<<"S", "C", " ", "1", "3", "G">>, JAbsent, <<"G", "a", "m", "m", "a">>, OwnerList(<<Owner(JFloat(30))>>)),
    \* filedAt is the empty string
    Raw(<<"S", "C", " ", "1", "3", "G">>, JStr(<<>>), <<"D", "e", "l", "t", "a">>, OwnersAbsent),
    \* a day February does not have
    Raw(<<"S", "C", " ", "1", "3", "D">>, JStr(<<"2", "0", "2", "5", "-", "0", "2", "-", "3", "0", "T", "1", "0", ":", "0", "0", ":", "0", "0", "-", "0", "5", ":", "0", "0">>), <<"E", "p", "s">>,
        OwnerList(<<Owner(JInt(7))>>)),
    \* not a date
    Raw(<<"S", "C", " ", "1", "3", "D">>, JStr(<<"2", "0", "2", "5", "/", "1", "1", "/", "2", "4">>), <<"Z", "e", "t", "a">>, OwnersNull),
    \* filedAt is a number
    Raw(<<"S", "C", " ", "1", "3", "G">>, JInt(20251124), <<"E", "t", "a">>, OwnerList(<<Owner(JFloat(41))>>)),
    \* in the window, an owner entry that is no object
    Raw(<<"S", "C", " ", "1", "3", "G">>, JStr(<<"2", "0", "2", "5", "-", "1", "0", "-", "0", "2", "T", "1", "2", ":", "0", "0", ":", "0", "0", "-", "0", "4", ":", "0", "0">>), <<"T", "h", "e", "t", "a">>,
        OwnerList(<<Owner(JFloat(62)), NotAnOwner>>)),
    \* in the window, no owners
    Raw(<<"S", "C", " ", "1", "3", "D", "/", "A">>, JStr(<<"2", "0", "2", "5", "-", "0", "6", "-", "1", "5", "T", "1", "6", ":", "3", "0", ":", "0", "0", "-", "0", "4", ":", "0", "0">>), <<"I", "o", "t", "a">>, OwnersNull)
>>

\* datetime.now(timezone.utc), as the clock may read
Clock(y, mo, d, h, mi, s) ==
    [year |-> y, month |-> mo, day |-> d, hour |-> h, minute |-> mi,
     second |-> s]

SampleClocks == {Clock(2025, 11, 30, 6, 0, 5), Clock(2026, 2, 1, 23, 59, 59)}

Today(t) == ToOrdinal(t.year, t.month, t.day)

\* Bodies the data source may answer with.  data.get("filings", []) of a
\* body without the key is [].
Response(picks) == [haskey |-> TRUE, picks |-> picks]
ResponseWithoutFilings == [haskey |-> FALSE, picks |-> <<>>]

SampleResponses == {
    ResponseWithoutFilings,
    Response(<<>>),
    \* two filings in the window around records that are skipped
    Response(<<4, 1, 3, 6, 10>>),
    \* more filings in the window than MAX_FILINGS_PER_FUND
    Response(<<1, 10, 1, 10, 1, 10, 1>>),
    \* a filing in the window, then a record whose filedAt is a number
    Response(<<1, 8>>)
}

\* data.get("filings", [])
FilingsOf(resp) == [i \in 1..Len(resp.picks) |-> SampleFilings[resp.picks[i]]]

\* The values of SEC_API_KEY: a key, the empty string (the variable is set
\* and empty), the placeholder.
SampleKeys == {"76d9e4b3", "", "YOUR_SEC_API_KEY_HERE"}

\* Texts send_telegram_message may be given: none, one chunk, a hard split,
\* splits at newlines, newlines at a chunk boundary.
SampleTexts == {
    <<>>,
    <<"D", "a", "i", "l", "y", " ", "1", "3", "D", "/", "1", "3", "G", " ", "O", "w", "n", "e", "r", "s", "h", "i", "p", " ", "S", "n", "a", "p", "s", "h", "o", "t", "\n">>,
    Repeat("a", 4000),
    Repeat("a", 4001),
    Repeat("a", 9000),
    Repeat("a", 3000) \o <<NL>> \o Repeat("b", 3000),
    Repeat("a", 3999) \o <<NL, NL, NL>> \o Repeat("b", 10),
    Repeat("a", 2000) \o <<NL>> \o Repeat("b", 3000) \o <<NL>>
        \o Repeat("c", 3999) \o <<NL>>
}

-----------------------------------------------------------------------------
(* main and the head of fetch_13dg_filings_for_cik                         *)

FUNDS == <<
    [name |-> <<"P", "o", "i", "n", "t", "7", "2", " ", "A", "s", "s", "e", "t", " ", "M", "a", "n", "a", "g", "e", "m", "e", "n", "t">>, cik |-> <<"1", "6", "0", "3", "4", "6", "6">>],
    [name |-> <<"E", "l", "l", "i", "o", "t", "t">>, cik |-> <<"1", "7", "9", "1", "7", "8", "6">>],
    [name |-> <<"S", "t", "a", "r", "b", "o", "a", "r", "d", " ", "V", "a", "l", "u", "e">>, cik |-> <<"1", "5", "1", "7", "1", "3", "7">>],
    [name |-> <<"J", "a", "n", "e", " ", "S", "t", "r", "e", "e", "t">>, cik |-> <<"1", "5", "9", "5", "8", "8", "8">>],
    [name |-> <<"R", "e", "n", "a", "i", "s", "s", "a", "n", "c", "e">>, cik |-> <<"1", "0", "3", "7", "3", "8", "9">>],
    [name |-> <<"C", "i", "t", "a", "d", "e", "l">>, cik |-> <<"1", "4", "2", "3", "0", "5", "3">>],
    [name |-> <<"M", "i", "l", "l", "e", "n", "n", "i", "u", "m">>, cik |-> <<"1", "2", "7", "3", "0", "8", "7">>]
>>

\* The filers main runs over.
Funds == SubSeq(FUNDS, 1, Min2(NumFunds, Len(FUNDS)))

\* A plausible slip: only the placeholder is refused.
KeyRejectedPlaceholderOnly(key) == key = "YOUR_SEC_API_KEY_HERE"

\* if not SEC_API_KEY or SEC_API_KEY == "YOUR_SEC_API_KEY_HERE"
KeyRejected(key) == key = "" \/ key = "YOUR_SEC_API_KEY_HERE"

\* all_funds_filings[cik] = info
DictSet(items, cik, info) ==
    IF \E i \in 1..Len(items) : items[i].cik = cik
    THEN [i \in 1..Len(items) |->
             IF items[i].cik = cik THEN [cik |-> cik, info |-> info]
             ELSE items[i]]
    ELSE Append(items, [cik |-> cik, info |-> info])

\* A plausible slip: no filings = [] in the except clause, so the local
\* keeps the filings of the filer before.
FilingsOnErrorStale(previous) == previous

\* filings = [] of the except clause
FilingsOnError(previous) == <<>>

\* all_funds_filings[cik] = {...} and the next turn of the loop
Record(fs) ==
    /\ main_filings' = fs
    /\ all_funds_filings' =
           DictSet(all_funds_filings, Funds[fund_i].cik,
                   [name |-> Funds[fund_i].name, filings |-> fs])
    /\ fund_i' = fund_i + 1
    /\ pc' = "loop"

\* except Exception as e: print; filings = []
Except(e) ==
    /\ errors' = Append(errors, [cik |-> Funds[fund_i].cik, error |-> e])
    /\ Record(FilingsOnError(main_filings))

\* filings = fetch_13dg_filings_for_cik(cik): the call
MainFetch ==
    /\ pc = "loop"
    /\ fund_i <= Len(Funds)
    /\ fetch_log' = Append(fetch_log, Funds[fund_i].cik)
    /\ pc' = "fetch"
    /\ UNCHANGED <<SEC_API_KEY, now, fund_i, main_filings, all_funds_filings,
                   report_text, sec_posts, errors>>
    /\ UNCHANGED <<chunkVars, extractVars, sendVars>>

\* raise RuntimeError("SEC_API_KEY is not set. ..."), caught by main
FetchKeyRefused ==
    /\ pc = "fetch"
    /\ KeyRejected(SEC_API_KEY)
    /\ Except("RuntimeError")
    /\ UNCHANGED <<SEC_API_KEY, now, report_text, fetch_log, sec_posts>>
    /\ UNCHANGED <<chunkVars, extractVars, sendVars>>

\* How the request may fail: requests.post raises (a timeout, no
\* connection), raise_for_status raises, resp.json() raises.
RequestErrors == {"Timeout", "HTTPError", "JSONDecodeError"}

\* requests.post(SEC_API_URL, ...) and a failure of the request, caught by main
FetchRequestFails ==
    /\ pc = "fetch"
    /\ ~KeyRejected(SEC_API_KEY)
    /\ sec_posts' = Append(sec_posts, Funds[fund_i].cik)
    /\ \E e \in RequestErrors : Except(e)
    /\ UNCHANGED <<SEC_API_KEY, now, report_text, fetch_log>>
    /\ UNCHANGED <<chunkVars, extractVars, sendVars>>

\* requests.post(SEC_API_URL, ...), the body read and the extraction loop run
\* on its filings: what the loop returns is recorded, what it raises is
\* caught by main
FetchRequestReturns ==
    /\ pc = "fetch"
    /\ ~KeyRejected(SEC_API_KEY)
    /\ sec_posts' = Append(sec_posts, Funds[fund_i].cik)
    /\ \E resp \in SampleResponses :
          LET r == ExtractLoop(FilingsOf(resp),
                               CutoffDate(Today(now), LOOKBACK_DAYS),
                               MAX_FILINGS_PER_FUND, <<>>)
          IN  IF r.raised
              THEN Except("AttributeError")
              ELSE Record(r.results) /\ UNCHANGED errors
    /\ UNCHANGED <<SEC_API_KEY, now, report_text, fetch_log>>
    /\ UNCHANGED <<chunkVars, extractVars, sendVars>>

\* report_text = format_daily_report(all_funds_filings) and the call of
\* send_telegram_message(report_text)
MainFormat ==
    /\ pc = "loop"
    /\ fund_i > Len(Funds)
    /\ report_text' = format_daily_report(all_funds_filings, now)
    /\ text' = report_text'
    /\ sd_pc' = "call"
    /\ pc' = "send"
    /\ UNCHANGED <<SEC_API_KEY, now, fund_i, main_filings, all_funds_filings,
                   fetch_log, sec_posts, errors>>
    /\ UNCHANGED <<max_len, remaining, chunks, ck_pc>>
    /\ UNCHANGED <<token_set, all_ok, part, posted, outcomes, send_result>>
    /\ UNCHANGED extractVars

\* ok = send_telegram_message(report_text) has returned: the last prints
MainEnd ==
    /\ pc = "send"
    /\ sd_pc = "done"
    /\ pc' = "end"
    /\ UNCHANGED <<SEC_API_KEY, now, fund_i, main_filings, all_funds_filings,
                   report_text, fetch_log, sec_posts, errors>>
    /\ UNCHANGED <<chunkVars, extractVars, sendVars>>

-----------------------------------------------------------------------------
(* The chunker on its own: every text over {a, b, newline} of at most      *)
(* MaxTextLen characters with every max_len of 1..MaxLenBound, and the     *)
(* 9000-character newline-free text with the default max_len.              *)

Alphabet == {"a", "b", NL}

RECURSIVE TextsUpTo(_)
TextsUpTo(n) ==
    IF n = 0 THEN {<<>>}
    ELSE LET shorter == TextsUpTo(n - 1)
         IN  shorter \cup {Append(t, c) : t \in {u \in shorter : Len(u) = n - 1},
                                          c \in Alphabet}

LongText == Repeat("a", 9000)

ExtractIdle ==
    /\ filings = <<>>
    /\ cutoff_date = 0
    /\ max_filings = 0
    /\ results = <<>>
    /\ fi = 0
    /\ ex_pc = "idle"

ChunkIdle ==
    /\ text = <<>>
    /\ max_len = 0
    /\ remaining = <<>>
    /\ chunks = <<>>
    /\ ck_pc = "idle"

SendIdle ==
    /\ token_set = FALSE
    /\ all_ok = FALSE
    /\ part = 0
    /\ posted = <<>>
    /\ outcomes = <<>>
    /\ send_result = FALSE
    /\ sd_pc = "idle"

MainIdle ==
    /\ SEC_API_KEY = ""
    /\ now = Clock(0, 0, 0, 0, 0, 0)
    /\ fund_i = 0
    /\ main_filings = <<>>
    /\ all_funds_filings = <<>>
    /\ report_text = <<>>
    /\ fetch_log = <<>>
    /\ sec_posts = <<>>
    /\ errors = <<>>
    /\ pc = "idle"

ChunkCall ==
    /\ remaining = text
    /\ chunks = <<>>
    /\ ck_pc = "loop"

InitChunkSmall ==
    /\ text \in TextsUpTo(MaxTextLen)
    /\ max_len \in 1..MaxLenBound
    /\ ChunkCall
    /\ ExtractIdle
    /\ SendIdle
    /\ MainIdle

InitChunkLong ==
    /\ text = LongText
    /\ max_len = MAX_TELEGRAM_LENGTH
    /\ ChunkCall
    /\ ExtractIdle
    /\ SendIdle
    /\ MainIdle

NextChunk == ChunkExit \/ ChunkFinal \/ ChunkSplit

SpecChunk == (InitChunkSmall \/ InitChunkLong) /\ [][NextChunk]_vars

\* The loop is sequential code: it takes its next step whenever it has one.
FairSpecChunk == InitChunkSmall /\ [][NextChunk]_vars /\ WF_vars(NextChunk)

-----------------------------------------------------------------------------
(* The extraction loop on its own: every list of at most MaxRecords of the *)
(* sample records, every max_filings of 0..MaxCount, each sample clock.    *)

InitExtract ==
    /\ \E n \in 0..MaxRecords :
          \E pick \in [1..n -> 1..Len(SampleFilings)] :
              filings = [i \in 1..n |-> SampleFilings[pick[i]]]
    /\ \E t \in SampleClocks : cutoff_date = CutoffDate(Today(t), LOOKBACK_DAYS)
    /\ max_filings \in 0..MaxCount
    /\ results = <<>>
    /\ fi = 1
    /\ ex_pc = "loop"
    /\ ChunkIdle
    /\ SendIdle
    /\ MainIdle

NextExtract ==
    ExtractBreak \/ ExtractSkip \/ ExtractRaise \/ ExtractAppend \/ ExtractReturn

SpecExtract == InitExtract /\ [][NextExtract]_vars

-----------------------------------------------------------------------------
(* send_telegram_message on its own, on each sample text.                  *)

InitSend ==
    /\ text \in SampleTexts
    /\ max_len = 0
    /\ remaining = <<>>
    /\ chunks = <<>>
    /\ ck_pc = "idle"
    /\ token_set \in BOOLEAN
    /\ all_ok = FALSE
    /\ part = 0
    /\ posted = <<>>
    /\ outcomes = <<>>
    /\ send_result = FALSE
    /\ sd_pc = "call"
    /\ ExtractIdle
    /\ MainIdle

NextSend == SendNoToken \/ SendStart \/ SendChunk \/ SendReturn

SpecSend == InitSend /\ [][NextSend]_vars

-----------------------------------------------------------------------------
(* The program: main from its first line to its last.                      *)

Init ==
    /\ SEC_API_KEY \in SampleKeys
    /\ now \in SampleClocks
    /\ token_set \in BOOLEAN
    /\ fund_i = 1
    /\ main_filings = <<>>
    /\ all_funds_filings = <<>>
    /\ report_text = <<>>
    /\ fetch_log = <<>>
    /\ sec_posts = <<>>
    /\ errors = <<>>
    /\ pc = "loop"
    /\ all_ok = FALSE
    /\ part = 0
    /\ posted = <<>>
    /\ outcomes = <<>>
    /\ send_result = FALSE
    /\ sd_pc = "idle"
    /\ ChunkIdle
    /\ ExtractIdle

Next ==
    \/ MainFetch
    \/ FetchKeyRefused
    \/ FetchRequestFails
    \/ FetchRequestReturns
    \/ MainFormat
    \/ SendNoToken
    \/ SendStart
    \/ SendChunk
    \/ SendReturn
    \/ MainEnd

Spec == Init /\ [][Next]_vars

-----------------------------------------------------------------------------
(* Claims about chunk_text.                                                *)

ChunkDone == ck_pc = "done"

AllNewlines(s) == \A i \in 1..Len(s) : s[i] = NL

NoNewline(s) == \A i \in 1..Len(s) : s[i] # NL

\* C1: every chunk chunk_text returns (and every chunk it has emitted so far)
\* is at most max_len characters long, whether it was cut at a newline, hard
\* split, or is the final chunk.
C1_ChunkLengthBounded ==
    \A i \in 1..Len(chunks) : Len(chunks[i]) <= max_len

\* C1's case: a run that returned a chunk cut at a newline (shorter than
\* max_len), then a hard-split chunk of exactly max_len, then a final chunk.
C1_Witness ==
    /\ ChunkDone
    /\ Len(chunks) = 3
    /\ Len(chunks[1]) < max_len
    /\ text[Len(chunks[1]) + 1] = NL
    /\ Len(chunks[2]) = max_len
    /\ NoNewline(chunks[2])

RECURSIVE Reassembles(_, _, _)
\* t is cs[1], some newlines, cs[2], some newlines, ..., cs[n] and then, only
\* when trailing is allowed, some more newlines.
Reassembles(t, cs, trailing) ==
    IF cs = <<>>
    THEN t = <<>>
    ELSE LET c == Head(cs)
             rest == SubSeq(t, Len(c) + 1, Len(t))
         IN  /\ Len(c) <= Len(t)
             /\ SubSeq(t, 1, Len(c)) = c
             /\ IF Len(cs) = 1
                THEN IF trailing THEN AllNewlines(rest) ELSE rest = <<>>
                ELSE \E k \in 0..Len(rest) :
                        /\ \A i \in 1..k : rest[i] = NL
                        /\ Reassembles(SubSeq(rest, k + 1, Len(rest)), Tail(cs),
                                       trailing)

\* C2 as stated: the chunks returned are consecutive, non-overlapping
\* substrings of the text in order, and every character of the text in no
\* chunk is a newline between two consecutive chunks.
C2_Original == ChunkDone => Reassembles(text, chunks, FALSE)

\* C2 as amended: the chunks returned are consecutive, non-overlapping
\* substrings of the text in order, starting at its first character, and every
\* character of the text in no chunk is a newline between two consecutive
\* chunks or after the last chunk.
C2_ReassemblesUpToNewlines == ChunkDone => Reassembles(text, chunks, TRUE)

\* C2's case: two chunks or more were returned, newlines were dropped, and
\* the text ends with newlines that follow the last chunk.
C2_Witness ==
    /\ ChunkDone
    /\ Len(chunks) >= 2
    /\ Reassembles(text, chunks, TRUE)
    /\ ~Reassembles(text, chunks, FALSE)

CeilDiv(a, b) == (a + b - 1) \div b

\* One step of the split rule, stated on the remaining text before and after.
C9_StepRule ==
    ck_pc = "loop" =>
        IF remaining = <<>>
        THEN chunks' = chunks /\ ck_pc' = "done"
        ELSE IF Len(remaining) <= max_len
        THEN chunks' = Append(chunks, remaining) /\ ck_pc' = "done"
        ELSE LET nls == {i \in 0..(max_len - 1) : remaining[i + 1] = NL}
                 cut == IF nls = {} THEN max_len
                        ELSE CHOOSE i \in nls : \A j \in nls : j <= i
                 after == SubSeq(remaining, cut + 1, Len(remaining))
             IN  /\ chunks' = Append(chunks, SubSeq(remaining, 1, cut))
                 /\ ck_pc' = "loop"
                 /\ \E k \in 0..Len(after) :
                        /\ \A i \in 1..k : after[i] = NL
                        /\ remaining' = SubSeq(after, k + 1, Len(after))
                        /\ remaining' = <<>> \/ remaining'[1] # NL

\* What the split rule gives on return.
C9_Results ==
    ChunkDone =>
        /\ text = <<>> => chunks = <<>>
        /\ (text # <<>> /\ Len(text) <= max_len) => chunks = <<text>>
        /\ NoNewline(text) =>
              /\ Len(chunks) = CeilDiv(Len(text), max_len)
              /\ \A i \in 1..(Len(chunks) - 1) : Len(chunks[i]) = max_len
              /\ chunks # <<>> =>
                    Len(chunks[Len(chunks)]) =
                        Len(text) - (Len(chunks) - 1) * max_len
        /\ (Len(text) = 9000 /\ NoNewline(text) /\ max_len = 4000) =>
              /\ Len(chunks) = 3
              /\ <<Len(chunks[1]), Len(chunks[2]), Len(chunks[3])>> =
                     <<4000, 4000, 1000>>

\* C9: chunk_text follows the split rule step by step (empty text: no chunk;
\* remaining text longer than max_len: cut before the last newline at an
\* index below max_len, else after max_len characters, and go on after the
\* split point with the leading newlines removed; remaining text of at most
\* max_len: the final chunk), so a non-empty text of at most max_len is its
\* own single chunk and a newline-free text of length L gives
\* ceil(L / max_len) chunks of max_len each except possibly the last (9000
\* characters with max_len 4000: 4000, 4000, 1000).
C9_SplitRule == [][C9_StepRule]_vars /\ []C9_Results

\* C9's case: the 9000-character newline-free text was chunked with max_len
\* 4000 and chunk_text returned.
C9_Witness ==
    /\ ChunkDone
    /\ Len(text) = 9000
    /\ max_len = 4000
    /\ Len(chunks) = 3

\* An iteration that does not emit the final chunk strictly shortens the
\* remaining text.
C10_Shrinks ==
    (ck_pc = "loop" /\ ck_pc' = "loop") => Len(remaining') < Len(remaining)

\* C10: for max_len >= 1 chunk_text terminates: every iteration that does not
\* emit the final chunk strictly shortens the remaining text (also when the
\* split point is index 0), and the chunks are eventually returned.
C10_Terminates == [][C10_Shrinks]_vars /\ <>ChunkDone

\* C10's case: the text started with a newline within the first max_len
\* characters of a text longer than max_len, so the first split point was
\* index 0 (an empty chunk), and chunk_text still returned.
C10_Witness ==
    /\ ChunkDone
    /\ Len(text) > max_len
    /\ text[1] = NL
    /\ Len(chunks) >= 2
    /\ chunks[1] = <<>>

-----------------------------------------------------------------------------
(* Claims about the extraction loop.                                       *)

\* The years of the calendar the claims are read against.
OracleYears == 2024..2026

\* The ways a calendar date is written that strptime's %Y-%m-%d reads: the
\* month and the day with or without the leading zero.
DateSpellings(y, m, d) ==
    {ZeroPad(y, 4) \o <<"-">> \o ms \o <<"-">> \o ds :
        ms \in {IntStr(m), ZeroPad(m, 2)}, ds \in {IntStr(d), ZeroPad(d, 2)}}

\* ts is the spelling sp, alone or followed by "T" and a time of day.
Spells(ts, sp) ==
    /\ Len(sp) <= Len(ts)
    /\ SubSeq(ts, 1, Len(sp)) = sp
    /\ Len(ts) = Len(sp) \/ ts[Len(sp) + 1] = "T"

\* The calendar dates (year, month, day) of the oracle's years.
CalendarDates ==
    {ymd \in OracleYears \X (1..12) \X (1..31) :
        ymd[3] <= DaysInMonth(ymd[1], ymd[2])}

SampleTimestamps ==
    {SampleFilings[i].filedAt.s :
        i \in {j \in 1..Len(SampleFilings) : SampleFilings[j].filedAt.ty = "str"}}

\* Every spelling of every calendar date: <<ymd, sp>>.
AllSpellings ==
    UNION {{<<ymd, sp>> : sp \in DateSpellings(ymd[1], ymd[2], ymd[3])} :
           ymd \in CalendarDates}

\* How the timestamps of the sample records read: <<ts, <<ymd, sp>>>> when
\* ts is the spelling sp of the calendar date ymd.  A timestamp that is not
\* a date has no reading, and no timestamp has two.
SampleReadings ==
    UNION {{<<ts, p>> : p \in {q \in AllSpellings : Spells(ts, q[2])}} :
           ts \in SampleTimestamps}

ReadingsOf(ts) == {r[2] : r \in {q \in SampleReadings : q[1] = ts}}

\* The record's timestamp is present, parseable and dated cutoff_date or
\* later.
InWindow(f) ==
    /\ f.filedAt.ty = "str"
    /\ \E r \in ReadingsOf(f.filedAt.s) :
          ToOrdinal(r[1][1], r[1][2], r[1][3]) >= cutoff_date

\* The numeric (int or float; a bool is an int) amountAsPercent values of the
\* record's owner entries, in tenths.
NumericPercents(f) ==
    LET owners == IF f.owners.ty = "list" THEN f.owners.items ELSE <<>>
    IN  {IF owners[i].amountAsPercent.ty = "float"
         THEN owners[i].amountAsPercent.n
         ELSE 10 * owners[i].amountAsPercent.n :
            i \in {j \in 1..Len(owners) :
                      /\ owners[j].isdict
                      /\ owners[j].amountAsPercent.ty \in {"int", "float", "bool"}}}

Headline(f) ==
    IF NumericPercents(f) = {} THEN NoPercent
    ELSE SomePercent(CHOOSE p \in NumericPercents(f) :
                        \A q \in NumericPercents(f) : q <= p)

\* The filing a record in the window is normalised to.
Normalized(f) ==
    [form |-> f.formType,
     filed_at_date |-> (CHOOSE r \in ReadingsOf(f.filedAt.s) : TRUE)[2],
     issuer |-> f.nameOfIssuer,
     percent_owned |-> Headline(f)]

\* The records in the window, in input order.
WindowRecords == SelectSeq(filings, InWindow)

\* The first max_filings records in the window, normalised.
ExpectedResults ==
    [k \in 1..Min2(max_filings, Len(WindowRecords)) |-> Normalized(WindowRecords[k])]

ExtractEnded == ex_pc \in {"done", "raised"}

\* C3: for every list of raw records, cutoff date and max_count >= 0 the
\* extraction loop returns exactly the first max_count records, in input
\* order, among the records whose timestamp is present, parseable and dated
\* cutoff_date or later; a skipped record neither counts nor stops the scan.
C3_ReturnsFirstInWindow ==
    ExtractEnded => (ex_pc = "done" /\ results = ExpectedResults)

\* What holds of the loop whenever it does return: the result is the first
\* max_filings records in the window, so each is dated cutoff_date or later
\* and there are at most max_filings of them.
ExtractReturnsExpected ==
    ex_pc = "done" => results = ExpectedResults

\* C7: the extraction loop never raises for a per-record issue: a malformed
\* record (timestamp missing, empty, unparseable or no string; a malformed
\* owner entry) is skipped and nothing else.
C7_NeverRaises == ex_pc # "raised"

-----------------------------------------------------------------------------
(* Claims about send_telegram_message.                                     *)

\* C5: once the delivery loop has started every chunk is handed to the
\* delivery endpoint exactly once and in chunk order, whatever became of the
\* chunks before it (no retry, no skipping, behind its "(Part i/N)" header
\* when there are several), and the function returns True exactly when
\* every delivery succeeded.
C5_EveryChunkSentInOrder ==
    sd_pc \in {"loop", "done"} /\ token_set =>
        /\ Len(posted) = part - 1
        /\ Len(outcomes) = Len(posted)
        /\ Len(posted) <= Len(chunks)
        /\ \A i \in 1..Len(posted) :
              posted[i] =
                  IF Len(chunks) = 1 THEN chunks[1]
                  ELSE <<"(", "P", "a", "r", "t", " ">> \o IntStr(i) \o <<"/">>
                       \o IntStr(Len(chunks)) \o <<")", NL>> \o chunks[i]
        /\ sd_pc = "done" =>
              /\ Len(posted) = Len(chunks)
              /\ send_result <=> \A i \in 1..Len(outcomes) : outcomes[i] = "ok"

\* C5's case: three chunks, the first delivery failed, the two after it were
\* still attempted and succeeded, and the function returned False.
C5_Witness ==
    /\ sd_pc = "done"
    /\ Len(chunks) = 3
    /\ Len(posted) = 3
    /\ outcomes[1] # "ok"
    /\ outcomes[2] = "ok"
    /\ outcomes[3] = "ok"
    /\ ~send_result

-----------------------------------------------------------------------------
(* Claims about main.                                                      *)

\* The elements of a set of numbers in ascending order.
Ascending(S) ==
    <<>> \o [k \in 1..Cardinality(S) |->
                CHOOSE x \in S : Cardinality({y \in S : y < x}) = k - 1]

Formatted == pc \in {"send", "end"}

\* The filers whose fetch failed, by position in the configuration.
Failed == {k \in 1..Len(Funds) : \E i \in 1..Len(errors) : errors[i].cik = Funds[k].cik}

\* The report has one block per configured filer, in configured order, and
\* the block of a filer whose fetch failed is the placeholder with no row.
\* A block starts at a line of 70 "=" and runs to the next such line or to
\* the end of the report.
OneBlockPerFiler(report) ==
    LET rule == Repeat("=", 70)
        dash == Repeat("-", 70)
        starts == {1} \cup {i + 1 : i \in {j \in 1..Len(report) : report[j] = NL}}
        isRule(s) ==
            /\ s + 69 <= Len(report)
            /\ SubSeq(report, s, s + 69) = rule
            /\ s + 70 > Len(report) \/ report[s + 70] = NL
        rules == Ascending({s \in starts : isRule(s)})
        block(k) == SubSeq(report, rules[k],
                           IF k = Len(rules) THEN Len(report)
                           ELSE rules[k + 1] - 1)
        head(k) == rule \o <<NL>> \o Funds[k].name
                   \o <<" ", "(", "C", "I", "K", " ">> \o Funds[k].cik
                   \o <<")", NL>> \o dash \o <<NL>>
        empty(k) == head(k) \o ColumnsLine \o <<NL>> \o dash \o <<NL>>
                    \o NoFilingsLine \o <<NL>>
                    \o (IF k = Len(rules) THEN <<>> ELSE <<NL>>)
    IN  /\ Len(rules) = Len(Funds)
        /\ \A k \in 1..Len(rules) :
              /\ Len(block(k)) >= Len(head(k))
              /\ SubSeq(block(k), 1, Len(head(k))) = head(k)
              /\ k \in Failed => block(k) = empty(k)

\* C4: main fetches every configured filer exactly once, in configured
\* order; a failed fetch (network, HTTP, parse or credential) never aborts
\* the run: the filer is recorded with zero filings, the remaining filers
\* are still fetched, and the report has one block per configured filer in
\* configured order, the failing filer's block showing the placeholder and
\* no row.
C4_FailureNeverAborts ==
    /\ Len(fetch_log) <= Len(Funds)
    /\ \A i \in 1..Len(fetch_log) : fetch_log[i] = Funds[i].cik
    /\ \A k \in Failed :
          \E j \in 1..Len(all_funds_filings) :
              /\ all_funds_filings[j].cik = Funds[k].cik
              /\ all_funds_filings[j].info.filings = <<>>
    /\ Formatted =>
          /\ Len(fetch_log) = Len(Funds)
          /\ Len(all_funds_filings) = Len(Funds)
          /\ \A k \in 1..Len(Funds) : all_funds_filings[k].cik = Funds[k].cik
          /\ OneBlockPerFiler(report_text)

\* C4's case: the fetch of the first filer failed on the network, a later
\* filer was fetched with filings, and the run reached its end with the
\* report handed to the delivery endpoint.
C4_Witness ==
    /\ pc = "end"
    /\ Len(errors) = 1
    /\ errors[1] = [cik |-> Funds[1].cik, error |-> "Timeout"]
    /\ all_funds_filings[1].info.filings = <<>>
    /\ \E k \in 2..Len(Funds) : all_funds_filings[k].info.filings # <<>>
    /\ posted # <<>>

\* The key is missing or invalid.
NoCredential == SEC_API_KEY \in {"", "YOUR_SEC_API_KEY_HERE"}

CredentialRaised == \E i \in 1..Len(errors) : errors[i].error = "RuntimeError"

=============================================================================
